---- MODULE Spec2Model ----
(***************************************************************************)
(* A model of the video pipeline of the YouTube auto-upload application:   *)
(* the five stages of PipelineWorker.process_pipeline (app/workers.py),    *)
(* the pHash deduplicator (app/dedupe.py), the uploader                    *)
(* (app/youtube_client.py) and the two decision paths, the Telegram        *)
(* callback (app/telegram_bot.py) and the REST endpoints (app/main.py).    *)
(*                                                                         *)
(* The database is modelled at the level of its rows: every table is a     *)
(* sequence whose index is the autoincrement primary key.  An ORM object   *)
(* held after its session is closed is the copy of the row made when the   *)
(* query ran.                                                              *)
(***************************************************************************)
EXTENDS Integers, Sequences, FiniteSets, TLC

\* ---------------------------------------------------------------- bounds

\* Number of distinct Instagram posts (ig_post_id values) of the one target.
MaxPosts == 2
\* Number of rows of the table uploads; the pipeline runs any number of times.
MaxUploads == 4
\* Number of transforms in the table a dedupe pass is applied to (SpecClassify).
MaxTransforms == 3
\* Number of pipeline runs that can be active at the same time
MaxRuns == 4
\* Number of rows of the table transforms when runs overlap
MaxTransformRows == 4
\* Rows of the table transforms two overlapping runs are followed to
MaxOverlapRows == 3
\* Number of admin decisions (Telegram callbacks and REST calls) delivered.
MaxDecisions == 2

\* Firings of the cron jobs that are followed
MaxScheduledRuns == 3

\* ------------------------------------------------------ program constants

\* Settings.phash_threshold
PhashThreshold == 10
\* Settings.youtube_max_retry_attempts
MaxRetries == 3

\* StatusEnum
PENDING == "pending"
IN_PROGRESS == "in_progress"
COMPLETED == "completed"
FAILED == "failed"
DUPLICATE == "duplicate"
REJECTED == "rejected"
StatusEnum == {PENDING, IN_PROGRESS, COMPLETED, FAILED, DUPLICATE, REJECTED}

\* ------------------------------------------------------------ pHash values

\* Transform.phash is None when _compute_phash failed.
NoPhash == <<>>

\* A pHash string (imagehash.phash: an 8x8 hash printed as 16 hexadecimal
\* digits) is a sequence of hexadecimal digits, most significant first.
HashA == <<0, 0, 0, 0, 0, 0, 0, 0, 0, 0, 0, 0, 0, 0, 0, 0>>
\* 10 bits away from HashA
HashB == <<15, 15, 3, 0, 0, 0, 0, 0, 0, 0, 0, 0, 0, 0, 0, 0>>
\* 11 bits away from HashA, 1 bit away from HashB
HashC == <<15, 15, 7, 0, 0, 0, 0, 0, 0, 0, 0, 0, 0, 0, 0, 0>>
PHashes == {HashA, HashB, HashC}

\* imagehash.hex_to_hash: the bits of the hexadecimal string, one per cell.
HexToHash(phash) ==
    [i \in 1..(4 * Len(phash)) |->
        (phash[((i - 1) \div 4) + 1] \div (2 ^ (3 - ((i - 1) % 4)))) % 2]

\* ImageHash.__sub__: the number of cells in which the two hashes differ.
HashSub(hash1, hash2) ==
    Cardinality({i \in DOMAIN hash1 : hash1[i] # hash2[i]})

\* _compare_phashes with the comparison exclusive at the threshold
ComparePhashesStrict(phash1, phash2) ==
    HashSub(HexToHash(phash1), HexToHash(phash2)) < PhashThreshold

\* Deduplicator._compare_phashes
ComparePhashes(phash1, phash2) ==
    LET hash1 == HexToHash(phash1)
        hash2 == HexToHash(phash2)
        distance == HashSub(hash1, hash2)
    IN  distance <= PhashThreshold

\* _phash_distance counting the hexadecimal digits that differ, not the bits
PhashDistanceDigits(phash1, phash2) ==
    Cardinality({i \in DOMAIN phash1 : phash1[i] # phash2[i]})

\* Deduplicator._phash_distance
PhashDistance(phash1, phash2) ==
    HashSub(HexToHash(phash1), HexToHash(phash2))

\* ------------------------------------------------------------------ state

VARIABLES
    demo,        \* Settings.demo_mode
    downloads,   \* table downloads
    transforms,  \* table transforms
    uploads,     \* table uploads
    approvals,   \* table approvals
    pc,          \* per run: the stage process_pipeline is in, "idle" before
                 \* the first call and after a return, "raised" after a raise
    queue,       \* per run: the rows its stage selected and has yet to process
    cur,         \* per run: the row a two-commit step has inserted and not
                 \* yet completed
    decisions,   \* decisions delivered so far; also the clock of approved_at
    uniqueSeen,  \* transforms a dedupe pass has examined and left COMPLETED
    reply,       \* what the last call of a decision handler was called with
                 \* and answered
    is_running,  \* VideoScheduler.is_running: the cron jobs are scheduled
    scheduler_running,  \* SystemStatus.scheduler_running, the persisted flag
    unique_transforms,  \* what the last call of get_unique_transforms returned
    upload_result,  \* _process_approved_uploads: what client.upload_video was
                 \* last called with and returned
    resumable_upload,  \* _resumable_upload: the loop of the call in hand
    schedule_times,  \* VideoScheduler.schedule_times
    jobs,        \* the ids of the jobs of VideoScheduler.scheduler
    system_status  \* the SystemStatus row: last_run, next_run, last_error,
                 \* last_error_at

vars == <<demo, downloads, transforms, uploads, approvals, pc, queue, cur,
          decisions, uniqueSeen, reply, is_running, scheduler_running,
          unique_transforms, upload_result, resumable_upload,
          schedule_times, jobs, system_status>>

PostIds == 1..MaxPosts

\* The tasks that can run process_pipeline at the same time: each call of
\* /admin/run-pipeline, run_now or a cron job creates its own PipelineWorker.
Runs == 1..MaxRuns

\* The admin of Settings.telegram_admin_id
AdminId == "admin"
NoUser == "none"

NoError == [kind |-> "none", similar_to |-> 0, distance |-> 0]
ProcessingFailed == [kind |-> "failed", similar_to |-> 0, distance |-> 0]

Range(s) == {s[i] : i \in DOMAIN s}

\* The orders in which a query without ORDER BY can return the rows S.
QueryOrders(S) ==
    {s \in [1..Cardinality(S) -> S] : Range(s) = S}

\* The elements of the set of numbers S in ascending order.
Ascending(S) ==
    CHOOSE s \in QueryOrders(S) : \A i, j \in DOMAIN s : i < j => s[i] < s[j]

\* Another Telegram user than the one of Settings.telegram_admin_id
OtherUser == "other"

\* The Telegram users who can press a button or send a command
Users == {AdminId, OtherUser}

\* What a decision handler was called with and what it answered: the path
\* (Telegram callback or REST endpoint), the upload id, "ok", "not_found"
\* (callback.answer("Upload not found."), HTTP 404) or "denied"
\* (callback.answer("Access denied.")), and the identity the call came with:
\* callback.from_user.id for Telegram, NoUser for a REST request, which
\* carries none.
Answer(via, upload_id, result, caller) ==
    [via |-> via, upload_id |-> upload_id, result |-> result,
     caller |-> caller]

NoReply == Answer("none", 0, "none", NoUser)

\* The value of a call of get_unique_transforms: the ids of the transforms
\* of the list returned, in its order.
Returned(ids) == [called |-> TRUE, transforms |-> ids]

NotCalled == [called |-> FALSE, transforms |-> <<>>]

\* What client.upload_video returned for a transform: whether the YouTube
\* service was there (built before, or by authenticate()), and the id of the
\* Upload returned, 0 for None.
UploadResult(service, upload) ==
    [called |-> TRUE, service |-> service, upload |-> upload]

NoResult == [called |-> FALSE, service |-> FALSE, upload |-> 0]

\* _resumable_upload: its position ("running" in the loop, or how it ended:
\* "response" returned, "None" returned), the number of iterations of the
\* loop begun, and what next_chunk did at each call.
UploadLoop(state, attempt, chunks) ==
    [state |-> state, attempt |-> attempt, chunks |-> chunks]

\* No call of _resumable_upload is in hand.
NotUploading == UploadLoop("idle", 0, <<>>)

\* A time of day as the schedule holds it: the string, and the hour and the
\* minute that map(int, time_str.split(':')) makes of it.
TimeString(text, hour, minute) ==
    [text |-> text, hour |-> hour, minute |-> minute]

\* Settings.schedule_times, its default
DefaultScheduleTimes ==
    <<TimeString("08:00", 8, 0), TimeString("12:00", 12, 0),
      TimeString("16:00", 16, 0)>>

\* The time strings add_schedule_time and remove_schedule_time are called
\* with: the default ones and another spelling of the first.
TimeStrings ==
    Range(DefaultScheduleTimes) \cup {TimeString("8:00", 8, 0)}

\* The id of the cron job of a schedule time: f"video_pipeline_{hour}_{minute}"
JobId(time_str) == <<time_str.hour, time_str.minute>>

\* A DateTime column of SystemStatus that is NULL
NoTime == 0

\* The SystemStatus row.  Times are counted in firings of the cron jobs:
\* last_run is the firing _run_pipeline last wrote, next_run the firing
\* _get_next_run_time computed.
SystemStatus(last_run, next_run, last_error, last_error_at) ==
    [last_run |-> last_run, next_run |-> next_run, last_error |-> last_error,
     last_error_at |-> last_error_at]

\* The row after VideoScheduler.start of the application's start-up
StartedStatus == SystemStatus(NoTime, 1, FALSE, NoTime)

Init ==
    /\ demo \in BOOLEAN
    /\ downloads = <<>>
    /\ transforms = <<>>
    /\ uploads = <<>>
    /\ approvals = <<>>
    /\ pc = [w \in Runs |-> "idle"]
    /\ queue = [w \in Runs |-> <<>>]
    /\ cur = [w \in Runs |-> 0]
    /\ decisions = 0
    /\ uniqueSeen = {}
    /\ reply = NoReply
    /\ is_running = TRUE
    /\ scheduler_running = TRUE
    /\ unique_transforms = NotCalled
    /\ upload_result = NoResult
    /\ resumable_upload = NotUploading
    /\ schedule_times = DefaultScheduleTimes
    /\ jobs = {JobId(schedule_times[i]) : i \in DOMAIN schedule_times}
    /\ system_status = StartedStatus

\* The coroutines of all runs share one event loop, and a run gives the loop
\* up only where it awaits a thread (run_in_executor).  _download_new_videos
\* awaits nothing, and neither does _create_upload_records (the preview it
\* awaits never suspends): while a run is in one of these stages no other
\* run's coroutine advances.  Code that runs in a thread is not held back.
LoopFree(w) ==
    \A v \in Runs \ {w} : pc[v] \notin {"download", "create"}

\* ------------------------------------------------------- stage 1: download

\* The posts one acquisition pass meets, in the one order the source yields
\* them: the sample videos in demo mode (get_sample_videos), the video posts
\* of the profile in real mode (profile.get_posts).  A post that is not yet
\* on the profile during a pass is a post whose download fails in that pass.
Feed == Ascending(PostIds)

\* process_pipeline is called (scheduler job, run_now or /admin/run-pipeline).
StartRun(w) ==
    /\ pc[w] \in {"idle", "raised"}
    /\ LoopFree(w)
    /\ pc' = [pc EXCEPT ![w] = "download"]
    /\ queue' = [queue EXCEPT ![w] = Feed]
    /\ UNCHANGED <<demo, downloads, transforms, uploads, approvals, cur,
                   decisions, uniqueSeen, reply,
                   is_running, scheduler_running, unique_transforms,
                   upload_result, resumable_upload,
                   schedule_times, jobs, system_status>>

\* The column ig_post_id without its unique constraint: no INSERT is refused.
NoUniqueConstraint(ig_post_id) == FALSE

\* Download.ig_post_id is unique=True: the INSERT of a second row with the
\* same ig_post_id raises IntegrityError.
DownloadIntegrityError(ig_post_id) ==
    \E d \in DOMAIN downloads : downloads[d].ig_post_id = ig_post_id

\* InstagramDownloader.download_from_instagram, one post of the loop, real mode
RealDownloadPost(w) ==
    /\ pc[w] = "download"
    /\ ~demo
    /\ queue[w] # <<>>
    /\ LET post == Head(queue[w])
           existing == \E d \in DOMAIN downloads : downloads[d].ig_post_id = post
       IN  \/ /\ existing
              /\ UNCHANGED downloads
           \/ /\ ~existing
              \* _download_single_post: the download itself can fail, and so
              \* can the INSERT; both are logged and give None.
              /\ \/ UNCHANGED downloads
                 \/ /\ ~DownloadIntegrityError(post)
                    /\ downloads' = Append(downloads, [ig_post_id |-> post])
    /\ queue' = [queue EXCEPT ![w] = Tail(queue[w])]
    /\ UNCHANGED <<demo, transforms, uploads, approvals, pc, cur,
                   decisions, uniqueSeen, reply,
                   is_running, scheduler_running, unique_transforms,
                   upload_result, resumable_upload,
                   schedule_times, jobs, system_status>>

\* InstagramDownloader._demo_download, one sample video of the loop
DemoDownloadPost(w) ==
    /\ pc[w] = "download"
    /\ demo
    /\ queue[w] # <<>>
    /\ LET post == Head(queue[w])
       IN  IF DownloadIntegrityError(post)
           THEN \* the IntegrityError leaves _demo_download, _download_new_videos
                \* and process_pipeline: the run is over
                /\ pc' = [pc EXCEPT ![w] = "raised"]
                /\ queue' = [queue EXCEPT ![w] = <<>>]
                /\ UNCHANGED downloads
           ELSE /\ downloads' = Append(downloads, [ig_post_id |-> post])
                /\ queue' = [queue EXCEPT ![w] = Tail(queue[w])]
                /\ UNCHANGED pc
    /\ UNCHANGED <<demo, transforms, uploads, approvals, cur, decisions,
                   uniqueSeen, reply,
                   is_running, scheduler_running, unique_transforms,
                   upload_result, resumable_upload,
                   schedule_times, jobs, system_status>>

\* _download_new_videos returns; _transform_videos selects the downloads that
\* have no transform row (Download outerjoin Transform, Transform.id IS NULL).
UntransformedDownloads ==
    {d \in DOMAIN downloads :
        ~\E t \in DOMAIN transforms : transforms[t].download_id = d}

DownloadDone(w) ==
    /\ pc[w] = "download"
    /\ queue[w] = <<>>
    /\ pc' = [pc EXCEPT ![w] = "transform"]
    /\ queue' = [queue EXCEPT ![w] = Ascending(UntransformedDownloads)]
    /\ UNCHANGED <<demo, downloads, transforms, uploads, approvals, cur,
                   decisions, uniqueSeen, reply,
                   is_running, scheduler_running, unique_transforms,
                   upload_result, resumable_upload,
                   schedule_times, jobs, system_status>>

\* ------------------------------------------------------ stage 2: transform

\* VideoTransformer.transform_video, first commit: the row is created
\* IN_PROGRESS.
TransformBegin(w) ==
    /\ pc[w] = "transform"
    /\ LoopFree(w)
    /\ queue[w] # <<>>
    /\ cur[w] = 0
    /\ Len(transforms) < MaxTransformRows
    /\ transforms' = Append(transforms,
          [download_id |-> Head(queue[w]), phash |-> NoPhash,
           status |-> IN_PROGRESS, error_message |-> NoError])
    /\ cur' = [cur EXCEPT ![w] = Len(transforms) + 1]
    /\ UNCHANGED <<demo, downloads, uploads, approvals, pc, queue,
                   decisions, uniqueSeen, reply,
                   is_running, scheduler_running, unique_transforms,
                   upload_result, resumable_upload,
                   schedule_times, jobs, system_status>>

\* The ways VideoTransformer.transform_video ends: COMPLETED with the pHash
\* _compute_phash returned (None when it failed), or FAILED.
TransformOutcomes ==
    {[phash |-> phash, status |-> COMPLETED, error_message |-> NoError] :
        phash \in PHashes \cup {NoPhash}}
    \cup {[phash |-> NoPhash, status |-> FAILED,
           error_message |-> ProcessingFailed]}

\* VideoTransformer.transform_video, second commit
TransformEnd(w) ==
    /\ pc[w] = "transform"
    /\ cur[w] # 0
    /\ \E outcome \in TransformOutcomes :
          transforms' = [transforms EXCEPT
                            ![cur[w]].phash = outcome.phash,
                            ![cur[w]].status = outcome.status,
                            ![cur[w]].error_message = outcome.error_message]
    /\ cur' = [cur EXCEPT ![w] = 0]
    /\ queue' = [queue EXCEPT ![w] = Tail(queue[w])]
    /\ UNCHANGED <<demo, downloads, uploads, approvals, pc, decisions,
                   uniqueSeen, reply,
                   is_running, scheduler_running, unique_transforms,
                   upload_result, resumable_upload,
                   schedule_times, jobs, system_status>>

\* process_transforms_for_duplicates selects the COMPLETED transforms that
\* have a pHash.
CompletedWithPhash ==
    {t \in DOMAIN transforms :
        transforms[t].status = COMPLETED /\ transforms[t].phash # NoPhash}

\* _transform_videos returning without awaiting its transformer threads: the
\* dedupe stage starts while transforms are selected or in hand.
TransformDoneEarly(w) ==
    /\ pc[w] = "transform"
    /\ LoopFree(w)
    /\ pc' = [pc EXCEPT ![w] = "dedupe"]
    /\ \E order \in QueryOrders(CompletedWithPhash) :
          queue' = [queue EXCEPT ![w] = order]
    /\ UNCHANGED <<demo, downloads, transforms, uploads, approvals, cur,
                   decisions, uniqueSeen, reply,
                   is_running, scheduler_running, unique_transforms,
                   upload_result, resumable_upload,
                   schedule_times, jobs, system_status>>

TransformDone(w) ==
    /\ pc[w] = "transform"
    /\ LoopFree(w)
    /\ queue[w] = <<>>
    /\ cur[w] = 0
    /\ pc' = [pc EXCEPT ![w] = "dedupe"]
    /\ \E order \in QueryOrders(CompletedWithPhash) :
          queue' = [queue EXCEPT ![w] = order]
    /\ UNCHANGED <<demo, downloads, transforms, uploads, approvals, cur,
                   decisions, uniqueSeen, reply,
                   is_running, scheduler_running, unique_transforms,
                   upload_result, resumable_upload,
                   schedule_times, jobs, system_status>>

\* --------------------------------------------------------- stage 3: dedupe

\* Deduplicator.check_duplicate_transform, the query: the other COMPLETED
\* transforms that have a pHash, as the database holds them now.
ExistingTransforms(id) ==
    {e \in DOMAIN transforms :
        /\ e # id
        /\ transforms[e].phash # NoPhash
        /\ transforms[e].status = COMPLETED}

NotDuplicate == [is_duplicate |-> FALSE, reason |-> NoError]

\* Deduplicator.check_duplicate_transform: the first of existing_transforms,
\* in the order the query returned them, whose pHash compares similar.
CheckDuplicateTransform(id, phash, existing_transforms) ==
    IF phash = NoPhash THEN NotDuplicate
    ELSE LET hits == {i \in DOMAIN existing_transforms :
                        ComparePhashes(phash, transforms[existing_transforms[i]].phash)}
         IN  IF hits = {} THEN NotDuplicate
             ELSE LET first == CHOOSE i \in hits : \A j \in hits : i <= j
                      existing_transform == existing_transforms[first]
                  IN  [is_duplicate |-> TRUE,
                       reason |-> [kind |-> "similar",
                                   similar_to |-> existing_transform,
                                   distance |-> PhashDistance(phash,
                                       transforms[existing_transform].phash)]]

\* mark_duplicate_transform storing the reason without the status
MarkDuplicateReasonOnly(id, reason) ==
    [transforms EXCEPT ![id].error_message = reason]

\* Deduplicator.mark_duplicate_transform
MarkDuplicateTransform(id, reason) ==
    [transforms EXCEPT ![id].status = DUPLICATE, ![id].error_message = reason]

\* Deduplicator.process_transforms_for_duplicates, one transform of the loop
DedupeStep(w) ==
    /\ pc[w] = "dedupe"
    /\ queue[w] # <<>>
    /\ LET id == Head(queue[w])
       IN  \E existing_transforms \in QueryOrders(ExistingTransforms(id)) :
             LET result == CheckDuplicateTransform(id, transforms[id].phash,
                                                   existing_transforms)
             IN  IF result.is_duplicate
                 THEN /\ transforms' = MarkDuplicateTransform(id, result.reason)
                      /\ UNCHANGED uniqueSeen
                 ELSE /\ UNCHANGED transforms
                      /\ uniqueSeen' =
                            IF transforms[id].status = COMPLETED
                            THEN uniqueSeen \cup {id} ELSE uniqueSeen
    /\ queue' = [queue EXCEPT ![w] = Tail(queue[w])]
    /\ UNCHANGED <<demo, downloads, uploads, approvals, pc, cur,
                   decisions, reply,
                   is_running, scheduler_running, unique_transforms,
                   upload_result, resumable_upload,
                   schedule_times, jobs, system_status>>

\* The query of _create_upload_records without its condition on Upload
CompletedTransforms ==
    {t \in DOMAIN transforms : transforms[t].status = COMPLETED}

\* _create_upload_records selects the COMPLETED transforms that have no upload
\* row (Transform outerjoin Upload, Upload.id IS NULL).
TransformsWithoutUpload ==
    {t \in DOMAIN transforms :
        /\ transforms[t].status = COMPLETED
        /\ ~\E u \in DOMAIN uploads : uploads[u].transform_id = t}

DedupeDone(w) ==
    /\ pc[w] = "dedupe"
    /\ LoopFree(w)
    /\ queue[w] = <<>>
    /\ pc' = [pc EXCEPT ![w] = "create"]
    /\ queue' = [queue EXCEPT ![w] = Ascending(TransformsWithoutUpload)]
    /\ UNCHANGED <<demo, downloads, transforms, uploads, approvals, cur,
                   decisions, uniqueSeen, reply,
                   is_running, scheduler_running, unique_transforms,
                   upload_result, resumable_upload,
                   schedule_times, jobs, system_status>>

\* Deduplicator.get_unique_transforms_for_upload, the loop over the rows the
\* query returned: a row is kept when its pHash is not among the pHashes
\* kept so far and _compare_phashes finds it similar to none of them.
RECURSIVE UniqueTransformsFrom(_, _, _)
UniqueTransformsFrom(rows, unique, seen_phashes) ==
    IF rows = <<>> THEN unique
    ELSE LET transform == Head(rows)
             phash == transforms[transform].phash
             is_similar ==
                 \E seen_phash \in seen_phashes :
                     ComparePhashes(phash, seen_phash)
         IN  IF phash \notin seen_phashes /\ ~is_similar
             THEN UniqueTransformsFrom(Tail(rows), Append(unique, transform),
                                       seen_phashes \cup {phash})
             ELSE UniqueTransformsFrom(Tail(rows), unique, seen_phashes)

\* Deduplicator.get_unique_transforms_for_upload on the rows in the order the
\* query (COMPLETED, phash not NULL, no ORDER BY) returned them
GetUniqueTransformsForUpload(rows) == UniqueTransformsFrom(rows, <<>>, {})

\* get_unique_transforms(): a call of the utility, at any time
GetUniqueTransforms ==
    /\ \E rows \in QueryOrders(CompletedWithPhash) :
          unique_transforms' = Returned(GetUniqueTransformsForUpload(rows))
    /\ UNCHANGED <<demo, downloads, transforms, uploads, approvals, pc, queue,
                   cur, decisions, uniqueSeen, reply, is_running,
                   scheduler_running,
                   upload_result, resumable_upload,
                   schedule_times, jobs, system_status>>

\* -------------------------------------------- stage 4: prepare publication

NoVideo == 0

\* _create_upload_records, first commit: the Upload row, PENDING
CreateUpload(w) ==
    /\ pc[w] = "create"
    /\ queue[w] # <<>>
    /\ cur[w] = 0
    /\ Len(uploads) < MaxUploads
    /\ uploads' = Append(uploads,
          [transform_id |-> Head(queue[w]), status |-> PENDING,
           yt_video_id |-> NoVideo])
    /\ cur' = [cur EXCEPT ![w] = Len(uploads) + 1]
    /\ UNCHANGED <<demo, downloads, transforms, approvals, pc, queue,
                   decisions, uniqueSeen, reply,
                   is_running, scheduler_running, unique_transforms,
                   upload_result, resumable_upload,
                   schedule_times, jobs, system_status>>

\* Approval.telegram_message_id of a row no preview message was stored for
NoMessage == 0

\* create_telegram_bot() in _create_upload_records: a new TelegramBot, whose
\* __init__ sets self.bot = None; only start_bot, which the worker never calls
\* on it, builds the aiogram Bot.
WorkerBotStarted == FALSE

\* TelegramBot.send_upload_preview in production mode: the id of the message
\* sent, which it stores in Approval.telegram_message_id (message ids are
\* numbered as the uploads here); on a bot that was not started
\* self.bot.send_message raises AttributeError, the except clause logs it,
\* nothing is sent and nothing is stored.
SendUploadPreview(bot_started, upload_id) ==
    IF bot_started THEN upload_id ELSE NoMessage

\* _create_upload_records, second commit: the Approval row, PENDING, and then,
\* when not in demo mode, send_upload_preview on a bot made for this upload
CreateApproval(w) ==
    /\ pc[w] = "create"
    /\ cur[w] # 0
    /\ approvals' = Append(approvals,
          [upload_id |-> cur[w], status |-> PENDING, approved_by |-> NoUser,
           approved_at |-> 0,
           telegram_message_id |->
               IF demo THEN NoMessage
               ELSE SendUploadPreview(WorkerBotStarted, cur[w])])
    /\ cur' = [cur EXCEPT ![w] = 0]
    /\ queue' = [queue EXCEPT ![w] = Tail(queue[w])]
    /\ UNCHANGED <<demo, downloads, transforms, uploads, pc, decisions,
                   uniqueSeen, reply,
                   is_running, scheduler_running, unique_transforms,
                   upload_result, resumable_upload,
                   schedule_times, jobs, system_status>>

\* The query of _process_approved_uploads without its condition on Approval
ApprovedUploadsNoJoin ==
    {u \in DOMAIN uploads : uploads[u].status = COMPLETED}

\* _process_approved_uploads, the query: Upload join Approval, both COMPLETED
ApprovedUploads ==
    {u \in DOMAIN uploads :
        /\ uploads[u].status = COMPLETED
        /\ \E a \in DOMAIN approvals :
              approvals[a].upload_id = u /\ approvals[a].status = COMPLETED}

CreateDone(w) ==
    /\ pc[w] = "create"
    /\ queue[w] = <<>>
    /\ cur[w] = 0
    /\ pc' = [pc EXCEPT ![w] = "publish"]
    /\ queue' = [queue EXCEPT ![w] = Ascending(ApprovedUploads)]
    /\ UNCHANGED <<demo, downloads, transforms, uploads, approvals, cur,
                   decisions, uniqueSeen, reply,
                   is_running, scheduler_running, unique_transforms,
                   upload_result, resumable_upload,
                   schedule_times, jobs, system_status>>

\* -------------------------------------------------------- stage 5: publish

\* YouTubeClient._demo_upload: a new Upload row, COMPLETED, with a video id
DemoUpload(transform_id) ==
    Append(uploads, [transform_id |-> transform_id, status |-> COMPLETED,
                     yt_video_id |-> Len(uploads) + 1])

\* YouTubeClient.upload_video in real mode, the service being available: a new
\* Upload row, IN_PROGRESS, then COMPLETED with the video id when
\* _resumable_upload returned a response, FAILED when it returned None or
\* anything raised.
RealUpload(transform_id, response) ==
    Append(uploads,
        IF response
        THEN [transform_id |-> transform_id, status |-> COMPLETED,
              yt_video_id |-> Len(uploads) + 1]
        ELSE [transform_id |-> transform_id, status |-> FAILED,
              yt_video_id |-> NoVideo])

\* upload_video without the test of self.service: the Upload row is made
\* IN_PROGRESS, self.service.videos() raises on None and the except clause
\* marks the row FAILED.
UploadVideoNoServiceTest(transform_id, service, response) ==
    IF demo THEN DemoUpload(transform_id)
    ELSE RealUpload(transform_id, service /\ response)

\* YouTubeClient.upload_video: the Upload table it leaves.  In demo mode
\* _demo_upload; in real mode nothing is written and None is returned when
\* the service is not built and authenticate() fails ("YouTube service not
\* available").
UploadVideo(transform_id, service, response) ==
    IF demo THEN DemoUpload(transform_id)
    ELSE IF ~service THEN uploads
    ELSE RealUpload(transform_id, response)

\* The loop of _process_approved_uploads without its try/except: an upload
\* that fails ends the stage and the run.
PublishStepNoTry(w) ==
    /\ pc[w] = "publish"
    /\ LoopFree(w)
    /\ queue[w] # <<>>
    /\ Len(uploads) < MaxUploads
    /\ LET upload == uploads[Head(queue[w])]
       IN  IF demo
           THEN /\ uploads' = DemoUpload(upload.transform_id)
                /\ queue' = [queue EXCEPT ![w] = Tail(queue[w])]
                /\ UNCHANGED pc
           ELSE \/ /\ uploads' = RealUpload(upload.transform_id, TRUE)
                   /\ queue' = [queue EXCEPT ![w] = Tail(queue[w])]
                   /\ UNCHANGED pc
                \/ /\ \/ UNCHANGED uploads
                      \/ uploads' = RealUpload(upload.transform_id, FALSE)
                   /\ queue' = [queue EXCEPT ![w] = <<>>]
                   /\ pc' = [pc EXCEPT ![w] = "raised"]
    /\ upload_result' = NoResult
    /\ UNCHANGED <<demo, downloads, transforms, approvals, cur,
                   decisions, uniqueSeen, reply,
                   is_running, scheduler_running, unique_transforms, resumable_upload,
                   schedule_times, jobs, system_status>>

\* _process_approved_uploads, one upload of the loop: client.upload_video
PublishStep(w) ==
    /\ pc[w] = "publish"
    /\ LoopFree(w)
    /\ queue[w] # <<>>
    /\ Len(uploads) < MaxUploads
    /\ LET upload == uploads[Head(queue[w])]
       IN  \E service, response \in BOOLEAN :
              /\ uploads' = UploadVideo(upload.transform_id, service, response)
              /\ upload_result' = UploadResult(~demo /\ service,
                     IF Len(uploads') > Len(uploads)
                            /\ uploads'[Len(uploads')].status = COMPLETED
                     THEN Len(uploads') ELSE 0)
    /\ queue' = [queue EXCEPT ![w] = Tail(queue[w])]
    /\ UNCHANGED <<demo, downloads, transforms, approvals, pc, cur,
                   decisions, uniqueSeen, reply,
                   is_running, scheduler_running, unique_transforms, resumable_upload,
                   schedule_times, jobs, system_status>>

\* process_pipeline returns
PublishDone(w) ==
    /\ pc[w] = "publish"
    /\ LoopFree(w)
    /\ queue[w] = <<>>
    /\ pc' = [pc EXCEPT ![w] = "idle"]
    /\ upload_result' = NoResult
    /\ UNCHANGED <<demo, downloads, transforms, uploads, approvals, queue, cur,
                   decisions, uniqueSeen, reply,
                   is_running, scheduler_running, unique_transforms, resumable_upload,
                   schedule_times, jobs, system_status>>

\* ------------------------------------------------------- resumable upload

\* What one call of insert_request.next_chunk() can do: return a response
\* with an 'id', return a response without one, return no response yet
\* (progress only), raise HttpError with a status of 500, 502, 503 or 504,
\* raise HttpError with another status, raise another exception.
ChunkOutcomes ==
    {"id", "no_id", "progress", "server_error", "client_error", "exception"}

\* _resumable_upload breaking out of its loop at every exception
RetriedProgressOnly == {"progress"}

\* _resumable_upload going on after every HttpError, whatever its status
RetriedWithClientError ==
    {"progress", "server_error", "client_error", "exception", "no_id"}

\* The outcomes of next_chunk after which _resumable_upload goes on to the
\* next iteration of its loop: progress, a server error and an exception
\* other than HttpError (both after time.sleep).  A response without an 'id'
\* is one of them: the code builds HttpError(resp=None, content=<str>), whose
\* constructor raises TypeError (the content is not bytes) inside the try, and
\* "except Exception" takes it as any other exception.
RetriedOutcomes == {"progress", "server_error", "exception", "no_id"}

\* _resumable_upload, one iteration of "for attempt in range(max_retries)":
\* the ways the loop can be left in after next_chunk has done outcome.  The
\* iteration that does not return ends the loop, and the function with
\* "return None", when it was the last of the range; a client error ends it
\* with break, and "return None".
ResumableUpload(loop, outcome) ==
    LET attempt == loop.attempt + 1
        chunks == Append(loop.chunks, outcome)
        goes_on == UploadLoop(IF attempt < MaxRetries THEN "running"
                              ELSE "None", attempt, chunks)
    IN  IF outcome = "id" THEN {UploadLoop("response", attempt, chunks)}
        ELSE IF outcome \in RetriedOutcomes THEN {goes_on}
        ELSE {UploadLoop("None", attempt, chunks)}

\* upload_video in real mode with the service available, up to the call of
\* _resumable_upload(insert_request), for the upload the publish stage of
\* run w has in hand
UploadVideoBegin(w) ==
    /\ pc[w] = "publish"
    /\ ~demo
    /\ queue[w] # <<>>
    /\ Len(uploads) < MaxUploads
    /\ resumable_upload = NotUploading
    /\ resumable_upload' = UploadLoop("running", 0, <<>>)
    /\ UNCHANGED <<demo, downloads, transforms, uploads, approvals, pc, queue,
                   cur, decisions, uniqueSeen, reply, is_running,
                   scheduler_running, unique_transforms, upload_result,
                   schedule_times, jobs, system_status>>

\* _resumable_upload, one iteration of its loop
NextChunk ==
    /\ resumable_upload.state = "running"
    /\ \E outcome \in ChunkOutcomes :
          resumable_upload' \in ResumableUpload(resumable_upload, outcome)
    /\ UNCHANGED <<demo, downloads, transforms, uploads, approvals, pc, queue,
                   cur, decisions, uniqueSeen, reply, is_running,
                   scheduler_running, unique_transforms, upload_result,
                   schedule_times, jobs, system_status>>

\* upload_video after _resumable_upload has ended: the Upload row COMPLETED
\* with the video id when a response was returned, FAILED when None was
\* returned; the worker goes on with the next upload.
UploadVideoEnd(w) ==
    /\ pc[w] = "publish"
    /\ queue[w] # <<>>
    /\ resumable_upload.state \in {"response", "None"}
    /\ LET upload == uploads[Head(queue[w])]
           response == resumable_upload.state = "response"
       IN  /\ uploads' = RealUpload(upload.transform_id, response)
           /\ upload_result' =
                 UploadResult(TRUE, IF response THEN Len(uploads') ELSE 0)
    /\ queue' = [queue EXCEPT ![w] = Tail(queue[w])]
    /\ resumable_upload' = NotUploading
    /\ UNCHANGED <<demo, downloads, transforms, approvals, pc, cur,
                   decisions, uniqueSeen, reply, is_running,
                   scheduler_running, unique_transforms,
                   schedule_times, jobs, system_status>>

\* ---------------------------------------------------------------- decisions

\* session.query(Approval).filter_by(upload_id=upload_id).first()
ApprovalOf(upload_id) ==
    LET found == {a \in DOMAIN approvals : approvals[a].upload_id = upload_id}
    IN  IF found = {} THEN 0
        ELSE CHOOSE a \in found : \A b \in found : a <= b

\* The uploads a preview with Approve/Reject buttons was made for: the ones
\* _create_upload_records has finished with.
PreviewedUploads ==
    {u \in DOMAIN uploads : ApprovalOf(u) # 0}

\* TelegramBot._handle_approval: the Approval row first, when there is one,
\* then the Upload row.
HandleApprovalApprovals(upload_id, approved, user) ==
    LET approval == ApprovalOf(upload_id)
    IN  IF approval # 0
        THEN [approvals EXCEPT
                ![approval].status = IF approved THEN COMPLETED ELSE REJECTED,
                ![approval].approved_by = user,
                ![approval].approved_at = decisions + 1]
        ELSE approvals

HandleApprovalUploads(upload_id, approved) ==
    [uploads EXCEPT
        ![upload_id].status = IF approved THEN COMPLETED ELSE REJECTED]

\* TelegramBot._is_admin
IsAdmin(user_id) == user_id = AdminId \/ demo

\* approve_callback / reject_callback of a user _is_admin accepts.  The bot
\* is started in production mode only (lifespan in app/main.py).
TelegramDecision ==
    /\ ~demo
    /\ decisions < MaxDecisions
    /\ \E upload_id \in PreviewedUploads, approved \in BOOLEAN, user \in Users :
          /\ IsAdmin(user)
          /\ approvals' = HandleApprovalApprovals(upload_id, approved, user)
          /\ uploads' = HandleApprovalUploads(upload_id, approved)
          /\ reply' = Answer("telegram", upload_id, "ok", user)
    /\ decisions' = decisions + 1
    /\ UNCHANGED <<demo, downloads, transforms, pc, queue, cur,
                   uniqueSeen,
                   is_running, scheduler_running, unique_transforms,
                   upload_result, resumable_upload,
                   schedule_times, jobs, system_status>>

\* approve_callback / reject_callback of a user _is_admin does not accept:
\* callback.answer("Access denied.") and return
TelegramDenied ==
    /\ ~demo
    /\ \E upload_id \in PreviewedUploads, user \in Users :
          /\ ~IsAdmin(user)
          /\ reply' = Answer("telegram", upload_id, "denied", user)
    /\ UNCHANGED <<demo, downloads, transforms, uploads, approvals, pc, queue,
                   cur, decisions, uniqueSeen, is_running, scheduler_running,
                   unique_transforms, upload_result, resumable_upload,
                   schedule_times, jobs, system_status>>

\* approve_upload (POST /admin/approve/{upload_id}): the Approval row only
ApproveUpload(approval) ==
    [approvals EXCEPT ![approval].status = COMPLETED,
                      ![approval].approved_at = decisions + 1]

\* reject_upload (POST /admin/reject/{upload_id}): the Approval row only
RejectUpload(approval) ==
    [approvals EXCEPT ![approval].status = REJECTED,
                      ![approval].approved_at = decisions + 1]

RestApprove ==
    /\ decisions < MaxDecisions
    /\ \E upload_id \in DOMAIN uploads :
          /\ ApprovalOf(upload_id) # 0
          /\ approvals' = ApproveUpload(ApprovalOf(upload_id))
          /\ reply' = Answer("rest", upload_id, "ok", NoUser)
    /\ decisions' = decisions + 1
    /\ UNCHANGED <<demo, downloads, transforms, uploads, pc, queue, cur,
                   uniqueSeen,
                   is_running, scheduler_running, unique_transforms,
                   upload_result, resumable_upload,
                   schedule_times, jobs, system_status>>

RestReject ==
    /\ decisions < MaxDecisions
    /\ \E upload_id \in DOMAIN uploads :
          /\ ApprovalOf(upload_id) # 0
          /\ approvals' = RejectUpload(ApprovalOf(upload_id))
          /\ reply' = Answer("rest", upload_id, "ok", NoUser)
    /\ decisions' = decisions + 1
    /\ UNCHANGED <<demo, downloads, transforms, uploads, pc, queue, cur,
                   uniqueSeen,
                   is_running, scheduler_running, unique_transforms,
                   upload_result, resumable_upload,
                   schedule_times, jobs, system_status>>

\* The upload ids a decision can be asked for: those of the table and one that
\* no row has (a preview of a database since replaced, a mistyped URL).
UnknownUploadId == MaxUploads + 1

\* _handle_approval for an upload id that has no Upload row: the callback is
\* answered "Upload not found." and the handler returns.
TelegramNotFound ==
    /\ ~demo
    /\ \E upload_id \in (1..UnknownUploadId) \ DOMAIN uploads :
          reply' = Answer("telegram", upload_id, "not_found", AdminId)
    /\ UNCHANGED <<demo, downloads, transforms, uploads, approvals, pc, queue,
                   cur, decisions, uniqueSeen,
                   is_running, scheduler_running, unique_transforms,
                   upload_result, resumable_upload,
                   schedule_times, jobs, system_status>>

\* approve_upload that makes the Approval it does not find instead of
\* answering 404
RestUpsert ==
    /\ Len(approvals) < MaxUploads
    /\ \E upload_id \in 1..UnknownUploadId :
          /\ ApprovalOf(upload_id) = 0
          /\ approvals' = Append(approvals,
                [upload_id |-> upload_id, status |-> COMPLETED,
                 approved_by |-> NoUser, approved_at |-> decisions,
                 telegram_message_id |-> NoMessage])
          /\ reply' = Answer("rest", upload_id, "ok", NoUser)
    /\ UNCHANGED <<demo, downloads, transforms, uploads, pc, queue,
                   cur, decisions, uniqueSeen,
                   is_running, scheduler_running, unique_transforms,
                   upload_result, resumable_upload,
                   schedule_times, jobs, system_status>>

\* approve_upload / reject_upload for an upload id that has no Approval row:
\* HTTPException 404 "Approval not found", raised inside get_db_session,
\* which rolls back.
RestNotFound ==
    /\ \E upload_id \in 1..UnknownUploadId :
          /\ ApprovalOf(upload_id) = 0
          /\ reply' = Answer("rest", upload_id, "not_found", NoUser)
    /\ UNCHANGED <<demo, downloads, transforms, uploads, approvals, pc, queue,
                   cur, decisions, uniqueSeen,
                   is_running, scheduler_running, unique_transforms,
                   upload_result, resumable_upload,
                   schedule_times, jobs, system_status>>

\* ---------------------------------------------------------------- scheduler

\* _get_next_run_time: None unless the scheduler runs and has schedule times,
\* else the firing after the last one.
GetNextRunTime(running, times) ==
    IF ~running \/ times = <<>> THEN NoTime
    ELSE system_status.last_run + 1

\* VideoScheduler.start (the application's lifespan start-up): the cron jobs
\* are added, is_running is set and the flag is persisted with it.
SchedulerStart ==
    /\ ~is_running
    /\ jobs' = jobs \cup {JobId(schedule_times[i]) : i \in DOMAIN schedule_times}
    /\ is_running' = TRUE
    /\ scheduler_running' = TRUE
    /\ system_status' =
          [system_status EXCEPT !.next_run = GetNextRunTime(TRUE, schedule_times)]
    /\ UNCHANGED <<demo, downloads, transforms, uploads, approvals, pc, queue,
                   cur, decisions, uniqueSeen, reply, unique_transforms,
                   upload_result, resumable_upload, schedule_times>>

\* VideoScheduler.stop (the application's lifespan shut-down): the
\* AsyncIOScheduler is shut down (its memory job store drops its jobs),
\* is_running is cleared and the flag is persisted with next_run=None.
SchedulerStop ==
    /\ is_running
    /\ jobs' = {}
    /\ is_running' = FALSE
    /\ scheduler_running' = FALSE
    /\ system_status' = [system_status EXCEPT !.next_run = NoTime]
    /\ UNCHANGED <<demo, downloads, transforms, uploads, approvals, pc, queue,
                   cur, decisions, uniqueSeen, reply, unique_transforms,
                   upload_result, resumable_upload, schedule_times>>

\* The Telegram command /stop of an admin: update_system_status(
\* scheduler_running=False) and the reply "Scheduler stopped successfully!";
\* the handler holds no reference to the VideoScheduler.
StopCommand ==
    /\ ~demo
    /\ scheduler_running' = FALSE
    /\ UNCHANGED <<demo, downloads, transforms, uploads, approvals, pc, queue,
                   cur, decisions, uniqueSeen, reply, is_running, unique_transforms,
                   upload_result, resumable_upload,
                   schedule_times, jobs, system_status>>

\* A cron job of the running VideoScheduler fires _run_pipeline, which calls
\* process_pipeline without reading the persisted flag; max_instances=1 keeps
\* the job from firing while its previous instance runs.
ScheduledRun(w) ==
    /\ is_running
    /\ jobs # {}
    /\ system_status.last_run < MaxScheduledRuns
    /\ pc[w] = "idle"
    /\ LoopFree(w)
    /\ system_status' =
          [system_status EXCEPT !.last_run = system_status.last_run + 1]
    /\ pc' = [pc EXCEPT ![w] = "download"]
    /\ queue' = [queue EXCEPT ![w] = Feed]
    /\ UNCHANGED <<demo, downloads, transforms, uploads, approvals, cur,
                   decisions, uniqueSeen, reply,
                   is_running, scheduler_running, unique_transforms,
                   upload_result, resumable_upload, schedule_times, jobs>>

\* _run_pipeline after process_pipeline has returned:
\* update_system_status(next_run=self._get_next_run_time())
RunPipelineReturn(w) ==
    /\ pc[w] = "publish"
    /\ LoopFree(w)
    /\ queue[w] = <<>>
    /\ pc' = [pc EXCEPT ![w] = "idle"]
    /\ upload_result' = NoResult
    /\ system_status' =
          [system_status EXCEPT
              !.next_run = GetNextRunTime(is_running, schedule_times)]
    /\ UNCHANGED <<demo, downloads, transforms, uploads, approvals, queue, cur,
                   decisions, uniqueSeen, reply,
                   is_running, scheduler_running, unique_transforms,
                   resumable_upload, schedule_times, jobs>>

\* The except clause of _run_pipeline that records nothing
RunPipelineExceptNoRecord(w) ==
    /\ pc[w] = "raised"
    /\ pc' = [pc EXCEPT ![w] = "idle"]
    /\ UNCHANGED <<demo, downloads, transforms, uploads, approvals, queue, cur,
                   decisions, uniqueSeen, reply,
                   is_running, scheduler_running, unique_transforms,
                   upload_result, resumable_upload, schedule_times, jobs,
                   system_status>>

\* The except clause of _run_pipeline, entered when process_pipeline has
\* raised: update_system_status(last_error=str(e), last_error_at=utcnow());
\* outside the demo mode a TelegramBot is made whose bot is None, so that
\* send_error_notification returns False.  Nothing is raised again: the job
\* returns to the scheduler.
RunPipelineExcept(w) ==
    /\ pc[w] = "raised"
    /\ pc' = [pc EXCEPT ![w] = "idle"]
    /\ system_status' =
          [system_status EXCEPT !.last_error = TRUE,
                                !.last_error_at = system_status.last_run]
    /\ UNCHANGED <<demo, downloads, transforms, uploads, approvals, queue, cur,
                   decisions, uniqueSeen, reply,
                   is_running, scheduler_running, unique_transforms,
                   upload_result, resumable_upload, schedule_times, jobs>>

\* VideoScheduler.add_schedule_time with a valid time string
AddScheduleTime ==
    \E time_str \in TimeStrings :
        /\ time_str \notin Range(schedule_times)
        /\ schedule_times' = Append(schedule_times, time_str)
        /\ jobs' = jobs \cup {JobId(time_str)}
        /\ UNCHANGED <<demo, downloads, transforms, uploads, approvals, pc,
                       queue, cur, decisions, uniqueSeen, reply, is_running,
                       scheduler_running, unique_transforms, upload_result,
                       resumable_upload, system_status>>

\* list.remove: the sequence without its first element equal to x
RemoveFirst(seq, x) ==
    LET i == CHOOSE k \in DOMAIN seq :
                 seq[k] = x /\ \A j \in 1..(k - 1) : seq[j] # x
    IN  SubSeq(seq, 1, i - 1) \o SubSeq(seq, i + 1, Len(seq))

\* VideoScheduler.remove_schedule_time with a time string of the list
RemoveScheduleTime ==
    \E time_str \in TimeStrings :
        /\ time_str \in Range(schedule_times)
        /\ schedule_times' = RemoveFirst(schedule_times, time_str)
        /\ jobs' = jobs \ {JobId(time_str)}
        /\ UNCHANGED <<demo, downloads, transforms, uploads, approvals, pc,
                       queue, cur, decisions, uniqueSeen, reply, is_running,
                       scheduler_running, unique_transforms, upload_result,
                       resumable_upload, system_status>>

\* ------------------------------------------------------------------ failures

\* get_db_session: a database error in a with-block is rolled back and raised
\* again.  In Deduplicator.process_transforms_for_duplicates the loop has no
\* try/except: the error of one transform (the query of
\* check_duplicate_transform, the commit of mark_duplicate_transform) leaves
\* the loop, _process_duplicates and process_pipeline.
DedupeItemError(w) ==
    /\ pc[w] = "dedupe"
    /\ queue[w] # <<>>
    /\ pc' = [pc EXCEPT ![w] = "raised"]
    /\ queue' = [queue EXCEPT ![w] = <<>>]
    /\ UNCHANGED <<demo, downloads, transforms, uploads, approvals, cur,
                   decisions, uniqueSeen, reply,
                   is_running, scheduler_running, unique_transforms,
                   upload_result, resumable_upload,
                   schedule_times, jobs, system_status>>

\* The loop of _create_upload_records has no try/except either: the error of
\* one transform (the commit of its Upload, or the commit of its Approval
\* after the Upload was committed) leaves the loop, the stage and
\* process_pipeline.
CreateItemError(w) ==
    /\ pc[w] = "create"
    /\ queue[w] # <<>>
    /\ pc' = [pc EXCEPT ![w] = "raised"]
    /\ queue' = [queue EXCEPT ![w] = <<>>]
    /\ cur' = [cur EXCEPT ![w] = 0]
    /\ upload_result' = NoResult
    /\ UNCHANGED <<demo, downloads, transforms, uploads, approvals,
                   decisions, uniqueSeen, reply,
                   is_running, scheduler_running, unique_transforms, resumable_upload,
                   schedule_times, jobs, system_status>>

\* The process is killed (or the task cancelled) while run w is in flight:
\* what was committed stays, the run's position is lost.
Crash(w) ==
    /\ pc[w] \notin {"idle", "raised"}
    /\ pc' = [pc EXCEPT ![w] = "idle"]
    /\ queue' = [queue EXCEPT ![w] = <<>>]
    /\ cur' = [cur EXCEPT ![w] = 0]
    /\ UNCHANGED <<demo, downloads, transforms, uploads, approvals,
                   decisions, uniqueSeen, reply,
                   is_running, scheduler_running, unique_transforms,
                   upload_result, resumable_upload,
                   schedule_times, jobs, system_status>>

\* ------------------------------------------------------------ specification

\* One step of run w of process_pipeline in the stages _download_new_videos
\* and _transform_videos
TransformStageStep(w) ==
    \/ StartRun(w)
    \/ RealDownloadPost(w)
    \/ DemoDownloadPost(w)
    \/ DownloadDone(w)
    \/ TransformBegin(w)
    \/ TransformEnd(w)

\* One step of run w in the stages _process_duplicates and
\* _create_upload_records
CreateStageStep(w) ==
    \/ TransformDone(w)
    \/ DedupeStep(w)
    \/ DedupeDone(w)
    \/ CreateUpload(w)
    \/ CreateApproval(w)

\* One step of run w in the stage _process_approved_uploads
PublishStageStep(w) ==
    \/ CreateDone(w)
    \/ PublishStep(w)
    \/ PublishDone(w)

\* One step of run w of process_pipeline
RunStep(w) ==
    \/ TransformStageStep(w)
    \/ CreateStageStep(w)
    \/ PublishStageStep(w)

\* Pipeline runs that never overlap: every call of process_pipeline is made
\* after the previous one has returned.
Next ==
    \/ RunStep(1)
    \/ TelegramDecision
    \/ RestApprove
    \/ RestReject

Spec == Init /\ [][Next]_vars

\* The state a run in production mode finds after process_downloads_only has
\* acquired the posts of the feed: every post downloaded, nothing transformed.
InitAcquired ==
    /\ demo = FALSE
    /\ downloads = [d \in PostIds |-> [ig_post_id |-> d]]
    /\ transforms = <<>>
    /\ uploads = <<>>
    /\ approvals = <<>>
    /\ pc = [w \in Runs |-> "idle"]
    /\ queue = [w \in Runs |-> <<>>]
    /\ cur = [w \in Runs |-> 0]
    /\ decisions = 0
    /\ uniqueSeen = {}
    /\ reply = NoReply
    /\ is_running = TRUE
    /\ scheduler_running = TRUE
    /\ unique_transforms = NotCalled
    /\ upload_result = NoResult
    /\ resumable_upload = NotUploading
    /\ schedule_times = DefaultScheduleTimes
    /\ jobs = {JobId(schedule_times[i]) : i \in DOMAIN schedule_times}
    /\ system_status = StartedStatus

\* Two pipeline runs that overlap: a second call of process_pipeline (manual
\* /admin/run-pipeline, run_now, another cron job) is made while the first is
\* in flight.  Each run is followed to the selection of its publish stage,
\* while the table of transforms has no more than MaxOverlapRows rows.
OverlappingRuns == {1, 2}

OverlapTransformBegin(w) ==
    /\ Len(transforms) < MaxOverlapRows
    /\ TransformBegin(w)

NextOverlap ==
    \E w \in OverlappingRuns :
        \/ StartRun(w)
        \/ RealDownloadPost(w)
        \/ DownloadDone(w)
        \/ OverlapTransformBegin(w)
        \/ TransformEnd(w)
        \/ CreateStageStep(w)
        \/ CreateDone(w)

SpecOverlap == InitAcquired /\ [][NextOverlap]_vars

\* As many pipeline runs at the same time as there are callers, followed to
\* the end of _transform_videos.
NextConcurrent ==
    \E w \in Runs :
        \/ StartRun(w)
        \/ RealDownloadPost(w)
        \/ DownloadDone(w)
        \/ TransformBegin(w)
        \/ TransformEnd(w)

SpecConcurrent == InitAcquired /\ [][NextConcurrent]_vars

\* process_all_duplicates applied to a table of transforms as the transform
\* stage leaves it: every download transformed, each with one of the outcomes.
InitClassify ==
    /\ demo \in BOOLEAN
    /\ \E n \in 1..MaxTransforms :
          /\ downloads = [d \in 1..n |-> [ig_post_id |-> d]]
          /\ \E outcome \in [1..n -> TransformOutcomes] :
                transforms = [t \in 1..n |->
                    [download_id |-> t, phash |-> outcome[t].phash,
                     status |-> outcome[t].status,
                     error_message |-> outcome[t].error_message]]
    /\ uploads = <<>>
    /\ approvals = <<>>
    /\ pc = [w \in Runs |-> IF w = 1 THEN "dedupe" ELSE "idle"]
    /\ \E order \in QueryOrders(CompletedWithPhash) :
          queue = [w \in Runs |-> IF w = 1 THEN order ELSE <<>>]
    /\ cur = [w \in Runs |-> 0]
    /\ decisions = 0
    /\ uniqueSeen = {}
    /\ reply = NoReply
    /\ is_running = TRUE
    /\ scheduler_running = TRUE
    /\ unique_transforms = NotCalled
    /\ upload_result = NoResult
    /\ resumable_upload = NotUploading
    /\ schedule_times = DefaultScheduleTimes
    /\ jobs = {JobId(schedule_times[i]) : i \in DOMAIN schedule_times}
    /\ system_status = StartedStatus

NextClassify == DedupeStep(1)

SpecClassify == InitClassify /\ [][NextClassify]_vars

\* Pipeline runs that never overlap, in which a database write of the dedupe
\* stage or of _create_upload_records can fail.
NextFaulty ==
    \/ Next
    \/ DedupeItemError(1)
    \/ CreateItemError(1)

SpecFaulty == Init /\ [][NextFaulty]_vars

\* Pipeline runs that never overlap and that can be interrupted.
NextCrash ==
    \/ Next
    \/ Crash(1)

SpecCrash == Init /\ [][NextCrash]_vars

\* Pipeline runs that never overlap, with decisions asked for any upload id,
\* known or not.
NextDecide ==
    \/ Next
    \/ TelegramNotFound
    \/ RestNotFound

SpecDecide == Init /\ [][NextDecide]_vars

\* The pipeline started by the cron jobs only, with the scheduler started and
\* stopped by the application and stopped by the Telegram command.  No upload
\* is decided on, so the publish stage of every run finds nothing to do.
NextScheduler ==
    \/ SchedulerStart
    \/ SchedulerStop
    \/ StopCommand
    \/ ScheduledRun(1)
    \/ RealDownloadPost(1)
    \/ DemoDownloadPost(1)
    \/ DownloadDone(1)
    \/ TransformBegin(1)
    \/ TransformEnd(1)
    \/ CreateStageStep(1)
    \/ CreateDone(1)
    \/ DedupeItemError(1)
    \/ CreateItemError(1)
    \/ RunPipelineReturn(1)
    \/ RunPipelineExcept(1)

SpecScheduler == Init /\ [][NextScheduler]_vars

\* The schedule of a VideoScheduler edited while the application starts and
\* stops it.
NextSchedule ==
    \/ AddScheduleTime
    \/ RemoveScheduleTime
    \/ SchedulerStart
    \/ SchedulerStop

SpecSchedule == Init /\ [][NextSchedule]_vars

\* The dedupe pass over a table of transforms, with get_unique_transforms
\* called at any point of it.
NextUnique ==
    \/ DedupeStep(1)
    \/ GetUniqueTransforms

SpecUnique == InitClassify /\ [][NextUnique]_vars

\* The state the publish stage of a run in production mode starts in when
\* every post was downloaded, transformed, and its upload approved by the admin
\* in Telegram.
InitApproved ==
    /\ demo = FALSE
    /\ \E n \in 1..MaxPosts :
          /\ downloads = [d \in 1..n |-> [ig_post_id |-> d]]
          /\ transforms = [t \in 1..n |->
                [download_id |-> t,
                 phash |-> IF t = 1 THEN HashA ELSE HashC,
                 status |-> COMPLETED, error_message |-> NoError]]
          /\ uploads = [u \in 1..n |->
                [transform_id |-> u, status |-> COMPLETED,
                 yt_video_id |-> NoVideo]]
          /\ approvals = [a \in 1..n |->
                [upload_id |-> a, status |-> COMPLETED,
                 approved_by |-> AdminId, approved_at |-> a,
                 telegram_message_id |-> NoMessage]]
          /\ decisions = n
          /\ uniqueSeen = 1..n
    /\ pc = [w \in Runs |-> IF w = 1 THEN "publish" ELSE "idle"]
    /\ queue = [w \in Runs |->
          IF w = 1 THEN Ascending(ApprovedUploads) ELSE <<>>]
    /\ cur = [w \in Runs |-> 0]
    /\ reply = NoReply
    /\ is_running = TRUE
    /\ scheduler_running = TRUE
    /\ unique_transforms = NotCalled
    /\ upload_result = NoResult
    /\ resumable_upload = NotUploading
    /\ schedule_times = DefaultScheduleTimes
    /\ jobs = {JobId(schedule_times[i]) : i \in DOMAIN schedule_times}
    /\ system_status = StartedStatus

\* The publish stage of one run in production mode, each call of
\* upload_video followed through the loop of _resumable_upload.
NextUpload ==
    \/ UploadVideoBegin(1)
    \/ NextChunk
    \/ UploadVideoEnd(1)

SpecUpload == InitApproved /\ [][NextUpload]_vars

\* Pipeline runs that never overlap, with decisions asked for by the admin,
\* by another Telegram user and over the REST endpoints.
NextAuth ==
    \/ Next
    \/ TelegramDenied

SpecAuth == Init /\ [][NextAuth]_vars



\* ------------------------------------------------------------------ claims

\* The transform has a row that upload_video completed: it is on YouTube.
Published(transform_id) ==
    \E u \in DOMAIN uploads :
        /\ uploads[u].transform_id = transform_id
        /\ uploads[u].yt_video_id # NoVideo

\* C1: Published is terminal.  No upload that the publish stage holds to hand
\* to upload_video belongs to an item that is already published: an item is
\* uploaded at most once over any sequence of runs.
C1_PublishedIsTerminal ==
    \A w \in Runs :
        pc[w] = "publish" =>
            \A i \in DOMAIN queue[w] :
                ~Published(uploads[queue[w][i]].transform_id)

\* C2: Only approved content is published.  Every upload the publish stage
\* selects has, at the moment of selection, status COMPLETED, an Approval that
\* is COMPLETED and no Approval that is PENDING or REJECTED; and upload_video
\* adds a row only in the publish stage, for the selected upload at the head
\* of the list.
C2_OnlyApprovedSelected ==
    [][\A w \in Runs :
       /\ (pc[w] # "publish" /\ pc'[w] = "publish") =>
            \A i \in DOMAIN queue'[w] :
                LET u == queue'[w][i]
                IN  /\ u \in DOMAIN uploads
                    /\ uploads[u].status = COMPLETED
                    /\ \E a \in DOMAIN approvals : approvals[a].upload_id = u
                    /\ \A a \in DOMAIN approvals :
                          approvals[a].upload_id = u =>
                              approvals[a].status = COMPLETED
       /\ \A u \in DOMAIN uploads' :
            (u \notin DOMAIN uploads /\ uploads'[u].status # PENDING) =>
                \E v \in Runs :
                    /\ pc[v] = "publish"
                    /\ queue[v] # <<>>
                    /\ queue'[v] = Tail(queue[v])
                    /\ uploads'[u].transform_id =
                          uploads[Head(queue[v])].transform_id
      ]_vars

\* One item has been uploaded while the decision on another is Rejected.
C2_Witness ==
    /\ \E u \in DOMAIN uploads : uploads[u].yt_video_id # NoVideo
    /\ \E a \in DOMAIN approvals :
          /\ approvals[a].status = REJECTED
          /\ ~Published(uploads[approvals[a].upload_id].transform_id)

\* C3: Approval is one-shot.  Once a decision is recorded on an Approval, no
\* later decision changes its status, its decider or its decision time.
C3_ApprovalOneShot ==
    [][\A a \in DOMAIN approvals :
          approvals[a].status # PENDING => approvals'[a] = approvals[a]]_vars

\* C4: Decision and item transition are atomic.  An Approval is COMPLETED
\* exactly when its Upload is COMPLETED and REJECTED exactly when its Upload
\* is REJECTED.
C4_DecisionAtomic ==
    \A a \in DOMAIN approvals :
        LET upload == uploads[approvals[a].upload_id]
        IN  /\ approvals[a].status = COMPLETED <=> upload.status = COMPLETED
            /\ approvals[a].status = REJECTED <=> upload.status = REJECTED

\* The number of bits in which two pHash strings differ, digit by digit.
BitsOfDigit == <<0, 1, 1, 2, 1, 2, 2, 3, 1, 2, 2, 3, 2, 3, 3, 4>>
DigitXor(a, b) ==
    LET bit(x, k) == (x \div (2 ^ k)) % 2
        dif(k) == IF bit(a, k) = bit(b, k) THEN 0 ELSE 2 ^ k
    IN  dif(0) + dif(1) + dif(2) + dif(3)
RECURSIVE HammingFrom(_, _, _)
HammingFrom(p, q, i) ==
    IF i > Len(p) THEN 0
    ELSE BitsOfDigit[DigitXor(p[i], q[i]) + 1] + HammingFrom(p, q, i + 1)
Hamming(p, q) == HammingFrom(p, q, 1)

\* C5: Near-duplicate content never reaches publication.  No two published
\* items have pHashes within the threshold of each other.
C5_NoNearDuplicatePublished ==
    \A t1, t2 \in DOMAIN transforms :
        (/\ t1 # t2
         /\ Published(t1)
         /\ Published(t2)
         /\ transforms[t1].phash # NoPhash
         /\ transforms[t2].phash # NoPhash)
        => Hamming(transforms[t1].phash, transforms[t2].phash) > PhashThreshold

C7_UniqueIsPermanent ==
    \A t \in uniqueSeen : transforms[t].status # DUPLICATE

FailedAttempts(transform_id) ==
    Cardinality({u \in DOMAIN uploads :
        uploads[u].transform_id = transform_id /\ uploads[u].status = FAILED})

\* C9: Retry exhaustion.  An item whose publication has failed MaxRetries
\* times is in a terminal failure state: the publish stage does not select it
\* again.
C9_RetryExhaustion ==
    \A w \in Runs :
        pc[w] = "publish" =>
            \A i \in DOMAIN queue[w] :
                FailedAttempts(uploads[queue[w][i]].transform_id) < MaxRetries

\* The lifecycle order of the status of a record.
Forward ==
    {<<PENDING, COMPLETED>>, <<PENDING, REJECTED>>,
     <<IN_PROGRESS, COMPLETED>>, <<IN_PROGRESS, FAILED>>,
     <<COMPLETED, DUPLICATE>>}

\* C10: Monotonic stage progress.  The status of every Transform, Upload and
\* Approval record only moves forward in the lifecycle order; a record never
\* returns to a status it has left, and Rejected and Approved never replace
\* each other.
C10_MonotonicStatus ==
    [][/\ \A t \in DOMAIN transforms :
            \/ transforms'[t].status = transforms[t].status
            \/ <<transforms[t].status, transforms'[t].status>> \in Forward
       /\ \A u \in DOMAIN uploads :
            \/ uploads'[u].status = uploads[u].status
            \/ <<uploads[u].status, uploads'[u].status>> \in Forward
       /\ \A a \in DOMAIN approvals :
            \/ approvals'[a].status = approvals[a].status
            \/ <<approvals[a].status, approvals'[a].status>> \in Forward
      ]_vars

\* C11: when a second pipeline run is started while one is in flight, no
\* Download is transformed twice: no two rows of transforms have the same
\* download_id.
C11_NoDoubleTransform ==
    \A t1, t2 \in DOMAIN transforms :
        transforms[t1].download_id = transforms[t2].download_id => t1 = t2

\* asyncio.Semaphore(self.max_concurrent_jobs) of PipelineWorker.__init__
MaxConcurrentJobs == 3

\* The transforms in flight: the runs whose transformer thread has inserted
\* its row and not yet finished with it.
TransformsInFlight ==
    {w \in Runs : pc[w] = "transform" /\ cur[w] # 0}

\* C12: the number of items being processed at the same time in the transform
\* stage, across all active runs, never exceeds three.
C12_BoundedConcurrentWork ==
    Cardinality(TransformsInFlight) <= MaxConcurrentJobs

\* C13: an upload that was changed between its selection by the publish stage
\* and its processing is skipped: every upload the stage hands to
\* client.upload_video and that is uploaded (a result row with a video id) is,
\* at that moment, still COMPLETED with a COMPLETED Approval.
C13_StaleSelectionSkipped ==
    [][\A w \in Runs :
          (/\ pc[w] = "publish"
           /\ queue[w] # <<>>
           /\ queue'[w] = Tail(queue[w])
           /\ Len(uploads') > Len(uploads)
           /\ uploads'[Len(uploads')].yt_video_id # NoVideo)
          => Head(queue[w]) \in ApprovedUploads]_vars

\* C14: in the stages transform, dedupe, prepare-publication and publish the
\* failure of one item never keeps the other selected items of the stage from
\* being processed in the same run: a run leaves such a stage with nothing of
\* its selection left, or, when the last item's failure ends the run, with
\* nothing but that item left.
C14_BulkheadIsolation ==
    [][\A w \in Runs :
          (/\ pc[w] \in {"transform", "dedupe", "create", "publish"}
           /\ pc'[w] # pc[w])
          => IF pc'[w] = "raised"
             THEN Len(queue[w]) <= 1
             ELSE queue[w] = <<>>]_vars

\* C15: the failure of one item's transform or upload leaves the run in its
\* stage with the rest of the selection to go, so that the following stages
\* are reached; an exception that leaves a stage ends the run there (nothing
\* selected, nothing in hand), and no later stage of that run starts: the
\* next thing the run's caller sees is the raise, the next stage that starts
\* is the acquisition of a new call.
C15_FailureScope ==
    [][\A w \in Runs :
          /\ (/\ pc[w] = "transform"
              /\ cur[w] # 0
              /\ transforms'[cur[w]].status = FAILED)
             => (pc'[w] = "transform" /\ queue'[w] = Tail(queue[w]))
          /\ (/\ pc[w] = "publish"
              /\ queue[w] # <<>>
              /\ queue'[w] # queue[w]
              /\ \/ uploads' = uploads
                 \/ /\ Len(uploads') > Len(uploads)
                    /\ uploads'[Len(uploads')].status = FAILED)
             => (pc'[w] = "publish" /\ queue'[w] = Tail(queue[w]))
          /\ (pc[w] # "raised" /\ pc'[w] = "raised")
             => (queue'[w] = <<>> /\ cur'[w] = 0)
          /\ pc[w] = "raised" => pc'[w] \in {"raised", "download"}]_vars

\* A run has ended with a raise after an earlier run went on past a failed
\* transform to an upload that failed.
C15_Witness ==
    /\ pc[1] = "raised"
    /\ \E t \in DOMAIN transforms : transforms[t].status = FAILED
    /\ \E u \in DOMAIN uploads : uploads[u].status = FAILED

\* The stages of process_pipeline in the order of its body, and the position
\* of a stage in it.
StageOrder == <<"download", "transform", "dedupe", "create", "publish">>

StageIndex(stage) ==
    CHOOSE i \in DOMAIN StageOrder : StageOrder[i] = stage

\* C16: within one run the stages start in the order acquire, transform,
\* dedupe, prepare-publication, publish, each only after the previous one has
\* finished: a run enters the first stage from outside a run only, enters
\* every other stage from the stage before it with nothing of that stage's
\* selection left and nothing in hand, and returns from the last stage only.
C16_StageOrder ==
    [][\A w \in Runs :
          pc'[w] # pc[w] =>
             \/ /\ pc[w] \in {"idle", "raised"}
                /\ pc'[w] = "download"
             \/ /\ pc[w] \notin {"idle", "raised"}
                /\ pc'[w] = "raised"
             \/ /\ pc[w] = "publish"
                /\ pc'[w] = "idle"
                /\ queue[w] = <<>>
             \/ /\ pc[w] \notin {"idle", "raised", "publish"}
                /\ pc'[w] \notin {"idle", "raised"}
                /\ StageIndex(pc'[w]) = StageIndex(pc[w]) + 1
                /\ queue[w] = <<>>
                /\ cur[w] = 0]_vars

\* A run is in its last stage with an approved upload to publish, every
\* earlier stage having had work: downloads, transforms and uploads exist.
C16_Witness ==
    /\ pc[1] = "publish"
    /\ queue[1] # <<>>
    /\ Len(transforms) > 1

\* The Upload records made for approval of a transform: the rows
\* _create_upload_records inserted (PENDING until decided, and the row an
\* Approval points to), not the result rows of upload_video.
UploadsForApproval(transform_id) ==
    {u \in DOMAIN uploads :
        /\ uploads[u].transform_id = transform_id
        /\ \/ uploads[u].status = PENDING
           \/ ApprovalOf(u) # 0}

\* C17: after any sequence of pipeline runs, overlapping ones included, a
\* transform has at most one Upload made for approval and an Upload has at
\* most one Approval.
C17_OneApprovalRequest ==
    /\ \A t \in DOMAIN transforms :
          Cardinality(UploadsForApproval(t)) <= 1
    /\ \A u \in DOMAIN uploads :
          Cardinality({a \in DOMAIN approvals : approvals[a].upload_id = u}) <= 1

\* Run 1 has made its requests and gone on; run 2, which overlaps it, is in
\* _create_upload_records with another transform selected, a COMPLETED
\* transform that has its request not being selected again.
C17_Witness ==
    /\ pc[1] = "publish"
    /\ pc[2] = "create"
    /\ queue[2] # <<>>
    /\ \E t \in DOMAIN transforms :
          /\ transforms[t].status = COMPLETED
          /\ UploadsForApproval(t) # {}
          /\ t \notin Range(queue[2])

\* C18: a transform that finished without a pHash never advances to approval:
\* no Upload is made for a transform whose phash is None.
C18_MissingFingerprintFailsFast ==
    \A u \in DOMAIN uploads :
        transforms[uploads[u].transform_id].phash # NoPhash

\* C19: an Upload and its Approval are made only for a transform that a
\* dedupe pass has examined, after its pHash was set, and left unique; also
\* when pipeline runs overlap.
C19_DedupePrecedesApproval ==
    \A u \in DOMAIN uploads :
        transforms[uploads[u].transform_id].phash # NoPhash
            => uploads[u].transform_id \in uniqueSeen

\* C20: a download whose transform was in flight when the run was interrupted
\* is not blocked by what was left behind: whenever a run makes the selection
\* of its transform stage, every download that has no finished transform
\* (no row other than IN_PROGRESS rows) is selected.
C20_RecoveryFromInterruption ==
    [][\A w \in Runs :
          (pc[w] = "download" /\ pc'[w] = "transform")
          => \A d \in DOMAIN downloads :
                (\A t \in DOMAIN transforms :
                    transforms[t].download_id = d
                        => transforms[t].status = IN_PROGRESS)
                => d \in Range(queue'[w])]_vars

\* The transforms of a download that ended FAILED
FailedTransforms(download_id) ==
    {t \in DOMAIN transforms :
        /\ transforms[t].download_id = download_id
        /\ transforms[t].status = FAILED}

\* C21: a download whose transform has failed fewer than MaxRetries times,
\* and has not succeeded, is selected again by the transform stage of a
\* subsequent run: whenever a run makes the selection of its transform stage,
\* every such download is in it.
C21_FailedTransformRetried ==
    [][\A w \in Runs :
          (pc[w] = "download" /\ pc'[w] = "transform")
          => \A d \in DOMAIN downloads :
                (/\ FailedTransforms(d) # {}
                 /\ Cardinality(FailedTransforms(d)) < MaxRetries
                 /\ \A t \in DOMAIN transforms :
                       transforms[t].download_id = d
                           => transforms[t].status = FAILED)
                => d \in Range(queue'[w])]_vars

\* C22: a collaborator call that never returns does not hold up the run: while
\* the transform of an item is in flight, the run has a step that does not
\* wait for the transformer's result (the call being cut off by a timeout),
\* so that its other items and its later stages are reached whatever the
\* call does.
C22_NoStarvationByStuckCall ==
    \A w \in Runs :
        (pc[w] = "transform" /\ cur[w] # 0)
            => ENABLED (RunStep(w) /\ transforms' = transforms)

\* C23: when the acquire stage meets a post that already has a Download, in
\* either mode, it skips it: no record is made, nothing is raised, and the
\* run stays in the stage to go on with the next post.
C23_ReacquisitionSkipped ==
    [][\A w \in Runs :
          (/\ pc[w] = "download"
           /\ queue[w] # <<>>
           /\ queue'[w] # queue[w]
           /\ \E d \in DOMAIN downloads :
                 downloads[d].ig_post_id = Head(queue[w]))
          => (/\ pc'[w] = "download"
              /\ queue'[w] = Tail(queue[w])
              /\ downloads' = downloads)]_vars

\* C24: an approve or reject for an upload id that has no matching record (no
\* Upload for the Telegram callback, no Approval for the REST endpoints) is
\* answered not found and leaves every Upload and Approval as it was; and
\* whatever is answered not found has changed nothing.
C24_UnknownItemNotFound ==
    [][reply' # reply =>
          LET unchanged == uploads' = uploads /\ approvals' = approvals
          IN  /\ (/\ reply'.via = "telegram"
                  /\ reply'.upload_id \notin DOMAIN uploads)
                 => (reply'.result = "not_found" /\ unchanged)
              /\ (/\ reply'.via = "rest"
                  /\ ApprovalOf(reply'.upload_id) = 0)
                 => (reply'.result = "not_found" /\ unchanged)
              /\ reply'.result = "not_found" => unchanged]_vars

\* A decision for an unknown id has been answered not found while an
\* approval is pending.
C24_Witness ==
    /\ reply.result = "not_found"
    /\ reply.upload_id = UnknownUploadId
    /\ \E a \in DOMAIN approvals : approvals[a].status = PENDING

\* C25: whenever a transform is classified duplicate, the stored reason names
\* the transform it matched, another one that is COMPLETED with a pHash, and
\* the Hamming distance between the two pHashes, which is at most the
\* threshold; the status DUPLICATE is stored together with that reason.
C25_DuplicateReason ==
    [][\A t \in DOMAIN transforms :
          (transforms[t].status # DUPLICATE /\ transforms'[t].status = DUPLICATE)
          => LET reason == transforms'[t].error_message
             IN  /\ reason.kind = "similar"
                 /\ reason.similar_to \in DOMAIN transforms \ {t}
                 /\ transforms[reason.similar_to].status = COMPLETED
                 /\ transforms[reason.similar_to].phash # NoPhash
                 /\ reason.distance =
                       Hamming(transforms[t].phash,
                               transforms[reason.similar_to].phash)
                 /\ reason.distance <= PhashThreshold]_vars

\* A transform is stored DUPLICATE with a reason whose distance is exactly the
\* threshold, and another with a smaller one.
C25_Witness ==
    /\ \E t \in DOMAIN transforms :
          /\ transforms[t].status = DUPLICATE
          /\ transforms[t].error_message.distance = PhashThreshold
    /\ \E t \in DOMAIN transforms :
          /\ transforms[t].status = DUPLICATE
          /\ transforms[t].error_message.distance < PhashThreshold

\* The transforms, other than t, that are COMPLETED with a pHash within the
\* threshold of the pHash of t
WithinThreshold(t) ==
    {e \in DOMAIN transforms \ {t} :
        /\ transforms[e].status = COMPLETED
        /\ transforms[e].phash # NoPhash
        /\ Hamming(transforms[t].phash, transforms[e].phash) <= PhashThreshold}

\* C26: when several stored pHashes are within the threshold of the checked
\* one, the duplicate check reports the transform with the lowest id, in
\* whatever order the query returned the rows.
C26_LowestIdMatch ==
    [][\A t \in DOMAIN transforms :
          (transforms[t].status # DUPLICATE /\ transforms'[t].status = DUPLICATE)
          => \A e \in WithinThreshold(t) :
                transforms'[t].error_message.similar_to <= e]_vars

\* C27: once /stop has been acknowledged (the persisted flag is off) no
\* scheduled pipeline run starts until the scheduler is started again.
C27_StopStopsScheduling ==
    [][\A w \in Runs :
          (pc[w] \in {"idle", "raised"} /\ pc'[w] = "download")
              => scheduler_running]_vars

\* C28: in production mode every upload that _create_upload_records has
\* finished with and that still awaits its decision has had its preview
\* message sent.
C28_PendingApprovalAnnounced ==
    ~demo =>
        \A u \in DOMAIN uploads :
            (uploads[u].status = PENDING /\ ApprovalOf(u) # 0)
                => approvals[ApprovalOf(u)].telegram_message_id # NoMessage

\* C29: what get_unique_transforms_for_upload returns is pairwise dissimilar
\* and maximal: no two returned transforms have pHashes within the threshold,
\* and every COMPLETED transform it does not return has a pHash equal to or
\* within the threshold of the pHash of a returned one (so that all are
\* returned when no two are similar).
C29_UniqueSelection ==
    [][~unique_transforms.called /\ unique_transforms'.called =>
        LET returned == Range(unique_transforms'.transforms)
        IN  /\ \A r1, r2 \in returned :
                  r1 # r2 => PhashDistance(transforms[r1].phash,
                                           transforms[r2].phash)
                                 > PhashThreshold
            /\ \A t \in DOMAIN transforms :
                  (transforms[t].status = COMPLETED /\ t \notin returned) =>
                      /\ transforms[t].phash # NoPhash
                      /\ \E r \in returned :
                            PhashDistance(transforms[t].phash,
                                          transforms[r].phash)
                                <= PhashThreshold]_vars

\* C30: in real mode, when upload_video finds no YouTube service it returns
\* None and writes nothing: the Upload table, with the approved item's row,
\* and the Approval table are as before.
C30_UnavailableServiceNoRecord ==
    [][\A w \in Runs :
          (/\ ~demo
           /\ pc[w] = "publish"
           /\ queue[w] # <<>>
           /\ queue'[w] = Tail(queue[w])
           /\ ~upload_result'.service)
              => /\ upload_result'.upload = 0
                 /\ uploads' = uploads
                 /\ approvals' = approvals]_vars

C30_Witness ==
    /\ ~demo
    /\ pc[1] = "publish"
    /\ upload_result.called
    /\ ~upload_result.service
    /\ \E u \in DOMAIN uploads : uploads[u].status = COMPLETED

\* next_chunk raised a failure the loop takes as transient at each of the
\* calls i..j of the sequence chunks.
TransientFailures(chunks, i, j) ==
    \A n \in i..j : chunks[n] \in {"server_error", "exception"}

\* C31: transient failures are retried.  While next_chunk has raised fewer
\* than max_retries times in a row, and nothing else, the loop is still
\* running, and when the next call returns a response with an 'id' that
\* response is what _resumable_upload returns.
C31_TransientFailuresRetried ==
    LET chunks == resumable_upload.chunks
        calls == Len(chunks)
    IN  /\ (/\ calls >= 1
            /\ calls < MaxRetries
            /\ TransientFailures(chunks, 1, calls))
               => resumable_upload.state = "running"
        /\ (/\ calls >= 1
            /\ chunks[calls] = "id"
            /\ TransientFailures(chunks, 1, calls - 1))
               => resumable_upload.state = "response"

C31_Witness ==
    /\ resumable_upload.chunks = <<"exception", "server_error", "id">>
    /\ resumable_upload.state = "response"

\* C32: _resumable_upload is bounded and stops at a client error.  next_chunk
\* is called at most max_retries times and never again after an HttpError
\* with a status other than 500, 502, 503, 504; after such an error, and after
\* max_retries calls that returned no response with an 'id', None is returned,
\* and upload_video then leaves the Upload row it created FAILED.
C32_BoundedAndStopsOnClientError ==
    [][LET chunks == resumable_upload'.chunks
           calls == Len(chunks)
       IN  /\ calls <= MaxRetries
           /\ \A n \in 1..(calls - 1) : chunks[n] # "client_error"
           /\ (calls >= 1 /\ chunks[calls] = "client_error")
                  => resumable_upload'.state = "None"
           /\ (calls = MaxRetries /\ chunks[calls] # "id")
                  => resumable_upload'.state = "None"
           /\ (resumable_upload.state = "None"
                    /\ resumable_upload'.state = "idle")
                  => /\ Len(uploads') = Len(uploads) + 1
                     /\ uploads'[Len(uploads')].status = FAILED
                     /\ \A u \in DOMAIN uploads : uploads'[u] = uploads[u]]_vars

C32_Witness ==
    /\ resumable_upload.chunks = <<"progress", "client_error">>
    /\ resumable_upload.state = "None"

\* C33: an upload during which next_chunk never raises succeeds, however many
\* calls report progress before the response: _resumable_upload does not
\* return None after calls that all reported progress.
C33_ErrorFreeUploadSucceeds ==
    resumable_upload.state = "None" =>
        \E n \in DOMAIN resumable_upload.chunks :
            resumable_upload.chunks[n] # "progress"

\* process_transforms_for_duplicates has visited every transform it selected.
DedupePassComplete == pc[1] = "dedupe" /\ queue[1] = <<>>

\* C34: when a dedupe pass has completed, no two transforms that are still
\* COMPLETED and have a pHash are within the threshold of each other, in
\* whatever order the pass visited them.
C34_NoSimilarPairSurvives ==
    DedupePassComplete =>
        \A t1, t2 \in CompletedWithPhash :
            t1 # t2 => Hamming(transforms[t1].phash, transforms[t2].phash)
                           > PhashThreshold

C34_Witness ==
    /\ DedupePassComplete
    /\ Cardinality(CompletedWithPhash) = 2
    /\ \E t \in DOMAIN transforms : transforms[t].status = DUPLICATE

\* C35: when a dedupe pass has completed, every transform marked DUPLICATE is
\* within the threshold of a transform that is still COMPLETED.
C35_DuplicateHasSurvivingOriginal ==
    DedupePassComplete =>
        \A t \in DOMAIN transforms :
            transforms[t].status = DUPLICATE =>
                \E e \in CompletedWithPhash :
                    Hamming(transforms[t].phash, transforms[e].phash)
                        <= PhashThreshold

\* C36: an upload whose Approval was recorded as approved, by the Telegram
\* callback or by POST /admin/approve, and whose video is not on YouTube yet
\* is selected by the publish stage of every later run.
C36_ApprovedIsSelected ==
    [][\A w \in Runs :
          (pc[w] = "create" /\ pc'[w] = "publish") =>
              \A u \in DOMAIN uploads :
                  (/\ ApprovalOf(u) # 0
                   /\ approvals[ApprovalOf(u)].status = COMPLETED
                   /\ ~Published(uploads[u].transform_id))
                      => u \in Range(queue'[w])]_vars

\* C37: in production mode an Approval or Upload row changes on an approve or
\* reject only when the call comes from the configured admin; a call of
\* anyone else changes no record.
C37_DecisionAuthorization ==
    [][~demo =>
          /\ decisions' # decisions => reply'.caller = AdminId
          /\ (reply' # reply /\ reply'.caller # AdminId)
                 => (approvals' = approvals /\ uploads' = uploads)]_vars

\* C38: every Upload row has exactly one Approval row, in every state in which
\* _create_upload_records is not between its two commits.
C38_OneApprovalPerUpload ==
    (\A w \in Runs : pc[w] = "create" => cur[w] = 0) =>
        \A u \in DOMAIN uploads :
            Cardinality({a \in DOMAIN approvals : approvals[a].upload_id = u})
                = 1

\* C39: while the scheduler is started, every entry of schedule_times has a
\* registered cron job and every registered job is the job of an entry of
\* schedule_times.
C39_ScheduleAndJobsConsistent ==
    is_running =>
        /\ \A i \in DOMAIN schedule_times : JobId(schedule_times[i]) \in jobs
        /\ \A job \in jobs :
              \E i \in DOMAIN schedule_times : JobId(schedule_times[i]) = job

====
